---- MODULE Spec2Model ----
(***************************************************************************)
(* Model of the card resolution engine of mtg-tools: the CardDatabase      *)
(* class (loadFromFile, buildIndex, findMatches, getMostRecentCard,        *)
(* findPartialMatch, createIndexKey, getCards, getCardCount) and           *)
(* normalizeString; and of the card list parser: CardListParser.parseFile  *)
(* with shouldSkipLine and parseCardLine.                                  *)
(*                                                                         *)
(* Strings are sequences of one-character strings, so that trim,           *)
(* toLowerCase, includes and the "|" key separator are computed as the     *)
(* code computes them.  A card object is a record whose field obj is the   *)
(* object's identity (its position in the parsed JSON array); the two      *)
(* index maps and the result hold these objects, as the JavaScript maps    *)
(* and arrays hold references.  released_at is <<>> when absent (or        *)
(* falsy) and <<t>> for a valid date whose getTime() is t (in days).       *)
(***************************************************************************)
EXTENDS Integers, Sequences, FiniteSets, TLC

\* ----- bounds of the model ------------------------------------------------
MaxCards == 2
MaxQueries == 2

\* ----- strings ------------------------------------------------------------
WhiteSpace == {" "}

LowerChar(c) ==
  CASE c = "A" -> "a"
    [] c = "B" -> "b"
    [] c = "C" -> "c"
    [] c = "X" -> "x"
    [] c = "Y" -> "y"
    [] c = "Z" -> "z"
    [] OTHER -> c

toLowerCase(str) == [i \in 1..Len(str) |-> LowerChar(str[i])]

RECURSIVE trimStart(_)
trimStart(str) ==
  IF str # <<>> /\ Head(str) \in WhiteSpace THEN trimStart(Tail(str)) ELSE str

RECURSIVE trimEnd(_)
trimEnd(str) ==
  IF str # <<>> /\ str[Len(str)] \in WhiteSpace
    THEN trimEnd(SubSeq(str, 1, Len(str) - 1))
    ELSE str

trim(str) == trimEnd(trimStart(str))

\* normalizeString without toLowerCase
normalizeStringTrimOnly(str) == trim(str)

normalizeString(str) == toLowerCase(trim(str))

\* includes that finds no empty string
includesNonEmpty(hay, needle) ==
  /\ needle # <<>>
  /\ \E i \in 0..(Len(hay) - Len(needle)) : SubSeq(hay, i + 1, i + Len(needle)) = needle

includes(hay, needle) ==
  \E i \in 0..(Len(hay) - Len(needle)) : SubSeq(hay, i + 1, i + Len(needle)) = needle

\* createIndexKey without the trim of normalizeString
createIndexKeyRaw(name, set) ==
  toLowerCase(name) \o <<"|">> \o toLowerCase(set)

createIndexKey(name, set) ==
  normalizeString(name) \o <<"|">> \o normalizeString(set)

\* ----- Map<string, ScryfallCard[]> -----------------------------------------
EmptyMap == [k \in {} |-> <<>>]

\* Map.get: <<>> is undefined, <<array>> is the array stored under the key
MapGet(m, k) == IF k \in DOMAIN m THEN <<m[k]>> ELSE <<>>

\* if (!m.has(k)) m.set(k, []); m.get(k).push(card)
MapPush(m, k, card) ==
  IF k \in DOMAIN m
    THEN [m EXCEPT ![k] = Append(@, card)]
    ELSE [x \in (DOMAIN m) \cup {k} |-> IF x = k THEN <<card>> ELSE m[x]]

\* ----- input universes ---------------------------------------------------
\* JSON card objects a database file may hold (name, set, released_at).
CardData ==
  { [name |-> <<" ", "A">>, set |-> <<"x">>, released_at |-> <<2>>],
    [name |-> <<"a">>,      set |-> <<"X">>, released_at |-> <<-1>>],
    [name |-> <<"a">>,      set |-> <<"y">>, released_at |-> <<>>],
    [name |-> <<"a", "B">>, set |-> <<"y">>, released_at |-> <<1>>] }

\* CardQuery objects (the fields findMatches reads and passes on).
Queries ==
  { [name |-> <<" ", "A">>,      set |-> <<"X", " ">>],
    [name |-> <<"a">>,           set |-> <<"z">>],
    [name |-> <<"A", "b", " ">>, set |-> <<"z">>],
    [name |-> <<"c">>,           set |-> <<"x">>] }

SeqsUpTo(S, n) == UNION { [1..k -> S] : k \in 0..n }

\* What loadFromFile can find at filePath.
Files ==
  { [kind |-> "missing",  data |-> <<>>],
    [kind |-> "badjson",  data |-> <<>>],
    [kind |-> "notarray", data |-> <<>>] }
  \cup { [kind |-> "array", data |-> d] : d \in SeqsUpTo(CardData, MaxCards) }

QueryLists == SeqsUpTo(Queries, MaxQueries)

\* JSON.parse allocates one object per array element: obj is its identity.
ParseCards(data) ==
  [i \in 1..Len(data) |->
     [obj |-> i, name |-> data[i].name, set |-> data[i].set,
      released_at |-> data[i].released_at]]

\* ----- CardDatabase -------------------------------------------------------
\* loaded: the array that the last loadFromFile that returned had parsed.
\* returned: the array a caller holds from getCards().  inputFile, parsed: the
\* file given to CardListParser.parseFile and what the call did.
VARIABLES cards, nameSetIndex, nameOnlyIndex,
          lastQueries, lastResult, lastOp, error, repeat,
          loaded, returned, inputFile, parsed

\* The command line tool.  env: what is at the database path and whether the
\* output path can be written; outputFile: the content of the file at the
\* output path, <<>> while there is none; pc: the step runFilter is at;
\* exitCode: <<>> while the process runs; trace: the steps begun so far.
VARIABLES env, outputFile, pc, exitCode, trace

\* The markdown export.  mdCards: the cards given to the generator and the
\* writer; mdTags: the tags of the frontmatter generated last; mdDir: the
\* output directory.
VARIABLES mdCards, mdTags, mdDir

cliVars == <<env, outputFile, pc, exitCode, trace>>

mdVars == <<mdCards, mdTags, mdDir>>

vars == <<cards, nameSetIndex, nameOnlyIndex,
          lastQueries, lastResult, lastOp, error, repeat,
          loaded, returned, inputFile, parsed, cliVars, mdVars>>

\* the fields of the CardDatabase instance
this == [cards |-> cards, nameSetIndex |-> nameSetIndex,
         nameOnlyIndex |-> nameOnlyIndex]

NoResult == [matches |-> <<>>, unmatched |-> <<>>]

RECURSIVE buildIndexLoop(_, _)
buildIndexLoop(cs, n) ==
  IF n = 0
    THEN [nameSetIndex |-> EmptyMap, nameOnlyIndex |-> EmptyMap]
    ELSE LET prev == buildIndexLoop(cs, n - 1)
             card == cs[n]
             exactKey == createIndexKey(card.name, card.set)
             nameKey == normalizeString(card.name)
         IN [nameSetIndex |-> MapPush(prev.nameSetIndex, exactKey, card),
             nameOnlyIndex |-> MapPush(prev.nameOnlyIndex, nameKey, card)]

buildIndex(cs) == buildIndexLoop(cs, Len(cs))

\* the error loadFromFile throws at filePath, "none" when it returns
loadFromFileError(file) ==
  IF file.kind = "missing" THEN "Database file not found"
  ELSE IF file.kind = "badjson" THEN "Invalid JSON in database file"
  ELSE IF file.kind = "notarray"
    THEN "Database file must contain an array of card objects"
  ELSE "none"

\* loadFromFile that empties the instance before it looks at the file
loadFromFileClearFirst(db, file) ==
  IF loadFromFileError(file) # "none"
    THEN [cards |-> <<>>, nameSetIndex |-> EmptyMap, nameOnlyIndex |-> EmptyMap]
    ELSE LET cs == ParseCards(file.data)
             idx == buildIndex(cs)
         IN [cards |-> cs, nameSetIndex |-> idx.nameSetIndex,
             nameOnlyIndex |-> idx.nameOnlyIndex]

\* buildIndex without the two calls of clear(): the cards are added to the
\* indices as they are
RECURSIVE buildIndexNoClear(_, _, _)
buildIndexNoClear(db, cs, n) ==
  IF n = 0
    THEN [nameSetIndex |-> db.nameSetIndex, nameOnlyIndex |-> db.nameOnlyIndex]
    ELSE LET prev == buildIndexNoClear(db, cs, n - 1)
             card == cs[n]
             exactKey == createIndexKey(card.name, card.set)
             nameKey == normalizeString(card.name)
         IN [nameSetIndex |-> MapPush(prev.nameSetIndex, exactKey, card),
             nameOnlyIndex |-> MapPush(prev.nameOnlyIndex, nameKey, card)]

\* loadFromFile whose buildIndex does not clear the indices
loadFromFileNoClear(db, file) ==
  IF loadFromFileError(file) # "none" THEN db
  ELSE LET cs == ParseCards(file.data)
           idx == buildIndexNoClear(db, cs, Len(cs))
       IN [cards |-> cs, nameSetIndex |-> idx.nameSetIndex,
           nameOnlyIndex |-> idx.nameOnlyIndex]

\* the instance after loadFromFile: untouched when it throws
loadFromFile(db, file) ==
  IF loadFromFileError(file) # "none" THEN db
  ELSE LET cs == ParseCards(file.data)
           idx == buildIndex(cs)
       IN [cards |-> cs, nameSetIndex |-> idx.nameSetIndex,
           nameOnlyIndex |-> idx.nameOnlyIndex]

\* ----- getMostRecentCard -------------------------------------------------
EpochTime == 0

getTime(card) ==
  IF card.released_at = <<>> THEN EpochTime ELSE card.released_at[1]

\* the comparator of cards.sort: negative when a sorts before b
compareCards(a, b) == getTime(b) - getTime(a)

\* insertSorted with ties resolved for the later element (an unstable sort)
RECURSIVE insertSortedBeforeTies(_, _)
insertSortedBeforeTies(sorted, x) ==
  IF sorted = <<>> THEN <<x>>
  ELSE IF compareCards(Head(sorted), x) >= 0 THEN <<x>> \o sorted
  ELSE <<Head(sorted)>> \o insertSortedBeforeTies(Tail(sorted), x)

\* Array.prototype.sort is stable: x, the last element of the input, goes
\* before the first element that compares greater than it.
RECURSIVE insertSorted(_, _)
insertSorted(sorted, x) ==
  IF sorted = <<>> THEN <<x>>
  ELSE IF compareCards(Head(sorted), x) > 0 THEN <<x>> \o sorted
  ELSE <<Head(sorted)>> \o insertSorted(Tail(sorted), x)

RECURSIVE sortCards(_)
sortCards(arr) ==
  IF arr = <<>> THEN <<>>
  ELSE insertSorted(sortCards(SubSeq(arr, 1, Len(arr) - 1)), arr[Len(arr)])

\* getMostRecentCard taking the first element off the array (sorted.shift())
getMostRecentCardShift(arr) ==
  IF Len(arr) = 0
    THEN [threw |-> TRUE, array |-> arr, card |-> <<>>]
    ELSE LET sorted == sortCards(arr)
         IN [threw |-> FALSE, array |-> Tail(sorted), card |-> <<sorted[1]>>]

\* array: the argument array after the call (sort works in place)
getMostRecentCard(arr) ==
  IF Len(arr) = 0
    THEN [threw |-> TRUE, array |-> arr, card |-> <<>>]
    ELSE LET sorted == sortCards(arr)
         IN [threw |-> FALSE, array |-> sorted, card |-> <<sorted[1]>>]

\* ----- findPartialMatch ----------------------------------------------------
\* partialCandidates testing one direction of containment only
RECURSIVE partialCandidatesOneWay(_, _, _)
partialCandidatesOneWay(cs, n, normalizedQuery) ==
  IF n = 0 THEN <<>>
  ELSE LET rest == partialCandidatesOneWay(cs, n - 1, normalizedQuery)
           normalizedCardName == normalizeString(cs[n].name)
       IN IF normalizedQuery = normalizedCardName THEN rest
          ELSE IF includes(normalizedCardName, normalizedQuery)
            THEN Append(rest, cs[n])
          ELSE rest

RECURSIVE partialCandidates(_, _, _)
partialCandidates(cs, n, normalizedQuery) ==
  IF n = 0 THEN <<>>
  ELSE LET rest == partialCandidates(cs, n - 1, normalizedQuery)
           normalizedCardName == normalizeString(cs[n].name)
       IN IF normalizedQuery = normalizedCardName THEN rest
          ELSE IF includes(normalizedCardName, normalizedQuery)
                  \/ includes(normalizedQuery, normalizedCardName)
            THEN Append(rest, cs[n])
          ELSE rest

\* findPartialMatch without the test for no candidates
findPartialMatchNoGuard(db, queryName) ==
  LET normalizedQuery == normalizeString(queryName)
      candidates == partialCandidates(db.cards, Len(db.cards), normalizedQuery)
      r == getMostRecentCard(candidates)
  IN [threw |-> r.threw, card |-> r.card]

\* card: <<>> is null
findPartialMatch(db, queryName) ==
  LET normalizedQuery == normalizeString(queryName)
      candidates == partialCandidates(db.cards, Len(db.cards), normalizedQuery)
  IN IF Len(candidates) = 0
       THEN [threw |-> FALSE, card |-> <<>>]
       ELSE LET r == getMostRecentCard(candidates)
            IN [threw |-> r.threw, card |-> r.card]

\* ----- findMatches ----------------------------------------------------------
\* pushMatch as matches.unshift(...)
pushMatchFront(acc, query, card, matchType) ==
  [acc EXCEPT !.matches =
     <<[query |-> query, card |-> card, matchType |-> matchType]>> \o @]

\* pushMatch with a copy of the card that carries the query's name and set
pushMatchQueryName(acc, query, card, matchType) ==
  [acc EXCEPT !.matches =
     Append(@, [query |-> query,
                card |-> [card EXCEPT !.name = query.name, !.set = query.set],
                matchType |-> matchType])]

\* matches.push({ query, card, matchType })
pushMatch(acc, query, card, matchType) ==
  [acc EXCEPT !.matches =
     Append(@, [query |-> query, card |-> card, matchType |-> matchType])]

\* pushUnmatched that reports a query once (if (!unmatched.includes(query)))
pushUnmatchedOnce(acc, query) ==
  IF query \in { acc.unmatched[i] : i \in DOMAIN acc.unmatched } THEN acc
  ELSE [acc EXCEPT !.unmatched = Append(@, query)]

\* unmatched.push(query)
pushUnmatched(acc, query) ==
  [acc EXCEPT !.unmatched = Append(@, query)]

\* findMatchesStep with the partial scan tried before the name-only index
findMatchesStepPartialFirst(db, acc, query) ==
  LET exactKey == createIndexKey(query.name, query.set)
      exactEntry == MapGet(db.nameSetIndex, exactKey)
      nameKey == normalizeString(query.name)
      fallbackCandidates == MapGet(acc.nameOnlyIndex, nameKey)
      partialMatch == findPartialMatch(db, query.name)
  IN IF acc.threw THEN acc
     ELSE IF exactEntry # <<>> /\ Len(exactEntry[1]) > 0
       THEN pushMatch(acc, query, exactEntry[1][1], "exact")
     ELSE IF partialMatch.threw THEN [acc EXCEPT !.threw = TRUE]
     ELSE IF partialMatch.card # <<>>
       THEN pushMatch(acc, query, partialMatch.card[1], "fallback")
     ELSE IF fallbackCandidates # <<>> /\ Len(fallbackCandidates[1]) > 0
       THEN LET r == getMostRecentCard(fallbackCandidates[1])
            IN IF r.threw THEN [acc EXCEPT !.threw = TRUE]
               ELSE pushMatch(
                      [acc EXCEPT !.nameOnlyIndex = [@ EXCEPT ![nameKey] = r.array]],
                      query, r.card[1], "fallback")
     ELSE pushUnmatched(acc, query)

\* the candidates printed in the set of the query when there are such, else all
inQuerySet(candidates, query) ==
  LET same == SelectSeq(candidates,
                        LAMBDA c : normalizeString(c.set) = normalizeString(query.set))
  IN IF same # <<>> THEN same ELSE candidates

\* findMatchesStep that prefers, in the name-only and the partial tier, the
\* candidates printed in the set of the query
findMatchesStepPreferSet(db, acc, query) ==
  LET exactKey == createIndexKey(query.name, query.set)
      exactEntry == MapGet(db.nameSetIndex, exactKey)
      nameKey == normalizeString(query.name)
      fallbackCandidates == MapGet(acc.nameOnlyIndex, nameKey)
      partial == partialCandidates(db.cards, Len(db.cards), nameKey)
  IN IF acc.threw THEN acc
     ELSE IF exactEntry # <<>> /\ Len(exactEntry[1]) > 0
       THEN pushMatch(acc, query, exactEntry[1][1], "exact")
     ELSE IF fallbackCandidates # <<>> /\ Len(fallbackCandidates[1]) > 0
       THEN pushMatch(acc, query,
                      getMostRecentCard(inQuerySet(fallbackCandidates[1], query)).card[1],
                      "fallback")
     ELSE IF partial # <<>>
       THEN pushMatch(acc, query,
                      getMostRecentCard(inQuerySet(partial, query)).card[1],
                      "fallback")
     ELSE pushUnmatched(acc, query)

\* findMatchesStep whose name-only tier does not test that there are
\* candidates: getMostRecentCard(this.nameOnlyIndex.get(nameKey) || [])
findMatchesStepNoTest(db, acc, query) ==
  LET exactKey == createIndexKey(query.name, query.set)
      exactEntry == MapGet(db.nameSetIndex, exactKey)
      nameKey == normalizeString(query.name)
      fallbackCandidates == MapGet(acc.nameOnlyIndex, nameKey)
      candidates == IF fallbackCandidates = <<>> THEN <<>> ELSE fallbackCandidates[1]
  IN IF acc.threw THEN acc
     ELSE IF exactEntry # <<>> /\ Len(exactEntry[1]) > 0
       THEN pushMatch(acc, query, exactEntry[1][1], "exact")
     ELSE LET r == getMostRecentCard(candidates)
          IN IF r.threw THEN [acc EXCEPT !.threw = TRUE]
             ELSE pushMatch(
                    [acc EXCEPT !.nameOnlyIndex = [@ EXCEPT ![nameKey] = r.array]],
                    query, r.card[1], "fallback")

\* One iteration of the loop over the queries.  acc holds the local arrays
\* matches and unmatched, the name-only index as the iterations so far left
\* it, and whether an iteration threw.
findMatchesStep(db, acc, query) ==
  LET exactKey == createIndexKey(query.name, query.set)
      exactEntry == MapGet(db.nameSetIndex, exactKey)
      nameKey == normalizeString(query.name)
      fallbackCandidates == MapGet(acc.nameOnlyIndex, nameKey)
  IN IF acc.threw THEN acc
     ELSE IF exactEntry # <<>> /\ Len(exactEntry[1]) > 0
       THEN pushMatch(acc, query, exactEntry[1][1], "exact")
     ELSE IF fallbackCandidates # <<>> /\ Len(fallbackCandidates[1]) > 0
       THEN LET r == getMostRecentCard(fallbackCandidates[1])
            IN IF r.threw THEN [acc EXCEPT !.threw = TRUE]
               ELSE pushMatch(
                      [acc EXCEPT !.nameOnlyIndex = [@ EXCEPT ![nameKey] = r.array]],
                      query, r.card[1], "fallback")
     ELSE LET partialMatch == findPartialMatch(db, query.name)
          IN IF partialMatch.threw THEN [acc EXCEPT !.threw = TRUE]
             ELSE IF partialMatch.card # <<>>
               THEN pushMatch(acc, query, partialMatch.card[1], "fallback")
             ELSE pushUnmatched(acc, query)

RECURSIVE findMatchesLoop(_, _, _)
findMatchesLoop(db, queries, n) ==
  IF n = 0
    THEN [matches |-> <<>>, unmatched |-> <<>>,
          nameOnlyIndex |-> db.nameOnlyIndex, threw |-> FALSE]
    ELSE findMatchesStep(db, findMatchesLoop(db, queries, n - 1), queries[n])

\* result: the returned MatchResult; db: the instance after the call
findMatches(db, queries) ==
  LET acc == findMatchesLoop(db, queries, Len(queries))
  IN [db |-> [db EXCEPT !.nameOnlyIndex = acc.nameOnlyIndex],
      result |-> IF acc.threw THEN NoResult
                 ELSE [matches |-> acc.matches, unmatched |-> acc.unmatched],
      error |-> IF acc.threw
                  THEN "Cannot get most recent card from empty array"
                  ELSE "none"]

\* ----- getCards, getCardCount -----------------------------------------------
\* held: the caller has an array from getCards; shared: that array is the
\* array this.cards itself
\* getCards as "return this.cards"
getCardsNoCopy(db) == [held |-> TRUE, array |-> db.cards, shared |-> TRUE]

\* [...this.cards]: a new array that holds the same card objects
getCards(db) == [held |-> TRUE, array |-> db.cards, shared |-> FALSE]

getCardCount(db) == Len(db.cards)

\* ----- string-utils: shouldSkipLine, parseCardLine ---------------------------
LF == "\n"
CR == "\r"

Digits == {"0", "1", "2", "3", "4", "5", "6", "7", "8", "9"}

startsWith(str, prefix) ==
  Len(str) >= Len(prefix) /\ SubSeq(str, 1, Len(prefix)) = prefix

shouldSkipLine(line) ==
  LET trimmed == trim(line)
  IN trimmed = <<>> \/ startsWith(trimmed, <<"#">>)

\* line.split('#')[0]
beforeHash(line) ==
  IF \E i \in DOMAIN line : line[i] = "#"
    THEN SubSeq(line, 1,
                (CHOOSE i \in DOMAIN line :
                   line[i] = "#" /\ \A k \in 1..(i - 1) : line[k] # "#") - 1)
    ELSE line

\* the number of characters of S in a row in str, starting at position from
RECURSIVE runLength(_, _, _)
runLength(str, from, S) ==
  IF from <= Len(str) /\ str[from] \in S
    THEN 1 + runLength(str, from + 1, S)
    ELSE 0

\* /\[([^\]]+)\]$/ : the positions of a "[" from which it matches
setStarts(s) ==
  { p \in DOMAIN s :
      /\ s[p] = "[" /\ s[Len(s)] = "]"
      /\ p + 1 <= Len(s) - 1
      /\ \A k \in (p + 1)..(Len(s) - 1) : s[k] # "]" }

\* /(.+?)\s*\[([^\]]+)\]$/ with group 1 starting at st: the ends of group 1
\* with which the rest of the pattern matches
nameEnds(s, st) ==
  { e \in st..Len(s) :
      \E p \in setStarts(s) :
         p > e /\ \A k \in (e + 1)..(p - 1) : s[k] \in WhiteSpace }

\* (.+?) is lazy: group 1 ends at the least such end
matchFrom(s, st) ==
  LET e == CHOOSE x \in nameEnds(s, st) : \A y \in nameEnds(s, st) : x <= y
      p == e + 1 + runLength(s, e + 1, WhiteSpace)
  IN [name |-> SubSeq(s, st, e), set |-> SubSeq(s, p + 1, Len(s) - 1)]

\* The starts of group 1 in the order the regular expression tries them:
\* after (?:\d+\s+), \s+ giving back one character at a time, and then
\* without the optional count.
groupStarts(s) ==
  LET d == runLength(s, 1, Digits)
      w == runLength(s, d + 1, WhiteSpace)
  IN IF d >= 1 /\ w >= 1
       THEN [i \in 1..w |-> d + w + 2 - i] \o <<1>>
       ELSE <<1>>

\* cleanLine.match(/^(?:\d+\s+)?(.+?)\s*\[([^\]]+)\]$/): <<>> is null
RECURSIVE firstMatch(_, _)
firstMatch(s, starts) ==
  IF starts = <<>> THEN <<>>
  ELSE IF nameEnds(s, Head(starts)) # {} THEN <<matchFrom(s, Head(starts))>>
  ELSE firstMatch(s, Tail(starts))

\* <<>> is null
parseCardLine(line) ==
  LET cleanLine == trim(beforeHash(line))
      match == firstMatch(cleanLine, groupStarts(cleanLine))
  IN IF cleanLine = <<>> THEN <<>>
     ELSE IF match = <<>> THEN <<>>
     ELSE IF trim(match[1].name) = <<>> \/ trim(match[1].set) = <<>> THEN <<>>
     ELSE <<[name |-> trim(match[1].name), set |-> trim(match[1].set)]>>

\* ----- CardListParser ---------------------------------------------------------
\* content.split(/\r?\n/)
RECURSIVE split(_)
split(content) ==
  IF ~\E i \in DOMAIN content : content[i] = LF THEN <<content>>
  ELSE LET i == CHOOSE j \in DOMAIN content :
                  content[j] = LF /\ \A k \in 1..(j - 1) : content[k] # LF
           head == SubSeq(content, 1, i - 1)
           line == IF head # <<>> /\ head[Len(head)] = CR
                     THEN SubSeq(head, 1, Len(head) - 1)
                     ELSE head
       IN <<line>> \o split(SubSeq(content, i + 1, Len(content)))

\* parseLine called with the loop index i in place of i + 1
parseLineIndex(line, lineNumber) ==
  LET p == parseCardLine(line)
  IN IF p = <<>> THEN [threw |-> TRUE, query |-> <<>>]
     ELSE [threw |-> FALSE,
           query |-> <<[name |-> p[1].name, set |-> p[1].set,
                        originalLine |-> trim(line),
                        lineNumber |-> lineNumber - 1]>>]

\* threw: Error('Invalid format. Expected "Card Name [SET]" but got: ...')
parseLine(line, lineNumber) ==
  LET p == parseCardLine(line)
  IN IF p = <<>> THEN [threw |-> TRUE, query |-> <<>>]
     ELSE [threw |-> FALSE,
           query |-> <<[name |-> p[1].name, set |-> p[1].set,
                        originalLine |-> trim(line),
                        lineNumber |-> lineNumber]>>]

\* One iteration of the loop over the lines, for lines[lineNumber - 1] of the
\* code.  acc holds the local arrays queries and errors, and in skipped the
\* line numbers of the iterations that ended in a continue.
parseFileStep(acc, line, lineNumber) ==
  IF line = <<>> THEN [acc EXCEPT !.skipped = Append(@, lineNumber)]
  ELSE IF shouldSkipLine(line)
    THEN [acc EXCEPT !.skipped = Append(@, lineNumber)]
  ELSE LET r == parseLine(line, lineNumber)
       IN IF r.threw
            THEN [acc EXCEPT !.errors =
                    Append(@, [lineNumber |-> lineNumber, got |-> trim(line)])]
            ELSE [acc EXCEPT !.queries = Append(@, r.query[1])]

\* the loop without the try/catch around parseLine: the first malformed line
\* ends it
RECURSIVE parseFileLoopNoCatch(_, _)
parseFileLoopNoCatch(lines, n) ==
  IF n = 0 THEN [queries |-> <<>>, errors |-> <<>>, skipped |-> <<>>]
  ELSE LET prev == parseFileLoopNoCatch(lines, n - 1)
       IN IF prev.errors # <<>> THEN prev
          ELSE parseFileStep(prev, lines[n], n)

RECURSIVE parseFileLoop(_, _)
parseFileLoop(lines, n) ==
  IF n = 0 THEN [queries |-> <<>>, errors |-> <<>>, skipped |-> <<>>]
  ELSE parseFileStep(parseFileLoop(lines, n - 1), lines[n], n)

\* parseFile without the throw for queries.length === 0
parseFileReturnsEmpty(file) ==
  IF ~file.exists
    THEN [error |-> "Input file not found", queries |-> <<>>, errors |-> <<>>,
          skipped |-> <<>>, lineCount |-> 0]
    ELSE LET lines == split(file.content)
             acc == parseFileLoop(lines, Len(lines))
         IN [error |-> "none",
             queries |-> acc.queries, errors |-> acc.errors,
             skipped |-> acc.skipped, lineCount |-> Len(lines)]

\* error: what parseFile throws, "none" when it returns queries; errors: the
\* lines it warned about; lineCount: lines.length
parseFile(file) ==
  IF ~file.exists
    THEN [error |-> "Input file not found", queries |-> <<>>, errors |-> <<>>,
          skipped |-> <<>>, lineCount |-> 0]
    ELSE LET lines == split(file.content)
             acc == parseFileLoop(lines, Len(lines))
         IN [error |-> IF Len(acc.queries) = 0
                         THEN "No valid card queries found in input file"
                         ELSE "none",
             queries |-> acc.queries, errors |-> acc.errors,
             skipped |-> acc.skipped, lineCount |-> Len(lines)]

\* ----- MarkdownGenerator: frontmatter tags, file names -------------------------
AsciiLower ==
  {"a", "b", "c", "d", "e", "f", "g", "h", "i", "j", "k", "l", "m",
   "n", "o", "p", "q", "r", "s", "t", "u", "v", "w", "x", "y", "z"}

AsciiUpper == {"A", "B", "C", "X", "Y", "Z"}

\* \w of a regular expression
WordChars == AsciiLower \cup AsciiUpper \cup Digits \cup {"_"}

\* the characters of the class in typeLine.replace(/[...-]/g, ' '), of which
\* the model has the hyphen
DashClass == {"-"}

\* str.replace(/[...]/g, to) for a class of characters
replaceChars(str, class, to) ==
  [i \in 1..Len(str) |-> IF str[i] \in class THEN to ELSE str[i]]

\* str.replace(/[^...]/g, ''): the characters of str that are in keep
RECURSIVE keepChars(_, _)
keepChars(str, keep) ==
  IF str = <<>> THEN <<>>
  ELSE IF Head(str) \in keep THEN <<Head(str)>> \o keepChars(Tail(str), keep)
  ELSE keepChars(Tail(str), keep)

\* str.split(/\s+/).filter(word => word.length > 0)
RECURSIVE splitWords(_)
splitWords(str) ==
  IF str = <<>> THEN <<>>
  ELSE IF Head(str) \in WhiteSpace THEN splitWords(Tail(str))
  ELSE LET n == Len(str)
           w == CHOOSE k \in 1..Len(str) :
                  /\ \A j \in 1..k : str[j] \notin WhiteSpace
                  /\ k = Len(str) \/ str[k + 1] \in WhiteSpace
       IN <<SubSeq(str, 1, w)>> \o splitWords(SubSeq(str, w + 1, n))

StopWords ==
  { <<"t", "h", "e">>, <<"a">>, <<"a", "n">>, <<"o", "f">>,
    <<"a", "n", "d">>, <<"o", "r">> }

\* the order of Array.prototype.sort on strings: by UTF-16 code unit
CodeUnits ==
  <<"-", "0", "1", "2", "3", "4", "5", "6", "7", "8", "9", "_",
    "a", "b", "c", "d", "e", "f", "g", "h", "i", "j", "k", "l", "m",
    "n", "o", "p", "q", "r", "s", "t", "u", "v", "w", "x", "y", "z">>

codeUnit(c) == CHOOSE i \in DOMAIN CodeUnits : CodeUnits[i] = c

RECURSIVE stringBefore(_, _)
stringBefore(a, b) ==
  IF b = <<>> THEN FALSE
  ELSE IF a = <<>> THEN TRUE
  ELSE IF Head(a) = Head(b) THEN stringBefore(Tail(a), Tail(b))
  ELSE codeUnit(Head(a)) < codeUnit(Head(b))

\* Array.from(new Set(tags)).sort()
RECURSIVE sortStrings(_)
sortStrings(S) ==
  IF S = {} THEN <<>>
  ELSE LET first == CHOOSE x \in S : \A y \in S \ {x} : stringBefore(x, y)
       IN <<first>> \o sortStrings(S \ {first})

extractTagsFromTypeLine(typeLine) ==
  IF typeLine = <<>> THEN <<>>
  ELSE LET words == splitWords(
                      keepChars(replaceChars(toLowerCase(typeLine), DashClass, " "),
                                WordChars \cup WhiteSpace))
       IN sortStrings({ words[i] : i \in DOMAIN words } \ StopWords)

\* the title and the tags of the frontmatter lines
generateYamlFrontmatter(card) ==
  [title |-> card.name, tags |-> extractTagsFromTypeLine(card.type_line)]

\* name.replace(/\s+/g, '-') and name.replace(/-+/g, '-'): every run of
\* characters of class becomes one "-"
RECURSIVE replaceRuns(_, _)
replaceRuns(str, class) ==
  IF str = <<>> THEN <<>>
  ELSE IF Head(str) \in class
    THEN <<"-">> \o replaceRuns(SubSeq(str, 1 + runLength(str, 1, class), Len(str)),
                                class)
  ELSE <<Head(str)>> \o replaceRuns(Tail(str), class)

\* name.replace(/^-|-$/g, '')
stripHyphens(str) ==
  LET a == IF str # <<>> /\ Head(str) = "-" THEN Tail(str) ELSE str
  IN IF a # <<>> /\ a[Len(a)] = "-" THEN SubSeq(a, 1, Len(a) - 1) ELSE a

sanitizeFilename(name) ==
  stripHyphens(
    replaceRuns(
      replaceRuns(
        keepChars(toLowerCase(name), AsciiLower \cup Digits \cup WhiteSpace \cup {"-"}),
        WhiteSpace),
      {"-"}))

\* ----- MarkdownWriter ------------------------------------------------------------
MdExtension == <<".", "m", "d">>

IndexFileName == <<"i", "n", "d", "e", "x">> \o MdExtension

\* fs.writeFileSync(filePath, content) in the directory: a file of that name
\* is replaced
writeFile(files, filename, content) ==
  [f \in DOMAIN files \cup {filename} |->
     IF f = filename THEN content ELSE files[f]]

RECURSIVE writeCardsToSeparateFiles(_, _)
writeCardsToSeparateFiles(cs, n) ==
  IF n = 0 THEN EmptyMap
  ELSE writeFile(writeCardsToSeparateFiles(cs, n - 1),
                 sanitizeFilename(cs[n].name) \o MdExtension,
                 [kind |-> "card", title |-> cs[n].name,
                  tags |-> generateYamlFrontmatter(cs[n]).tags])

\* files: the output directory after the call; reported: the number in
\* "Successfully exported N cards"
writeCardsToMarkdown(cs) ==
  [written |-> TRUE,
   files |-> writeFile(writeCardsToSeparateFiles(cs, Len(cs)), IndexFileName,
                       [kind |-> "index", title |-> <<>>, tags |-> <<>>]),
   reported |-> Len(cs)]

\* ----- OutputWriter ----------------------------------------------------------------
\* JSON.stringify of a card: its properties, not the object
stringify(card) ==
  [name |-> card.name, set |-> card.set, released_at |-> card.released_at]

\* writeToFile that writes each card once
writeToFileOnce(matchResult, writable) ==
  LET cs == [i \in DOMAIN matchResult.matches |-> matchResult.matches[i].card]
      firsts == SelectSeq([i \in DOMAIN cs |-> [at |-> i, card |-> cs[i]]],
                          LAMBDA e : \A j \in 1..(e.at - 1) : cs[j] # e.card)
      jsonContent == [i \in DOMAIN firsts |-> stringify(firsts[i].card)]
  IN IF writable
       THEN [error |-> "none", file |-> <<jsonContent>>]
       ELSE [error |-> "Failed to write output file", file |-> <<>>]

\* file: what is at outputPath after the call when nothing was there before,
\* <<>> for no file; writable: fs.writeFileSync(outputPath, ...) does not throw
writeToFile(matchResult, writable) ==
  LET cs == [i \in DOMAIN matchResult.matches |-> matchResult.matches[i].card]
      jsonContent == [i \in DOMAIN cs |-> stringify(cs[i])]
  IN IF writable
       THEN [error |-> "none", file |-> <<jsonContent>>]
       ELSE [error |-> "Failed to write output file", file |-> <<>>]

\* ----- CardFilterTool.runFilter ---------------------------------------------------
\* the error validateFiles throws, "none" when it returns
validateFiles(input, databaseFile) ==
  IF ~input.exists THEN "Input file not found"
  ELSE IF databaseFile.kind = "missing" THEN "Database file not found"
  ELSE "none"

\* the statements of the try block, in program order
runFilterSteps ==
  <<"validateFiles", "parseFile", "loadFromFile", "findMatches", "writeToFile",
    "summary">>

\* the try block without the transfer to catch: the statement after step runs
\* whether or not step threw
afterStepNoCatch(step, err) ==
  LET i == CHOOSE k \in DOMAIN runFilterSteps : runFilterSteps[k] = step
  IN IF i = Len(runFilterSteps) THEN "returned" ELSE runFilterSteps[i + 1]

\* where control is after step: in the catch block when step threw, else at the
\* statement after it
afterStep(step, err) ==
  LET i == CHOOSE k \in DOMAIN runFilterSteps : runFilterSteps[k] = step
  IN IF err # "none" THEN "catch"
     ELSE IF i = Len(runFilterSteps) THEN "returned"
     ELSE runFilterSteps[i + 1]

\* ----- the state machine ---------------------------------------------------
NoEnv ==
  [databaseFile |-> [kind |-> "missing", data |-> <<>>], outputWritable |-> TRUE]

\* the command line tool has not been started
CliIdle ==
  /\ env = NoEnv
  /\ outputFile = <<>>
  /\ pc = "idle"
  /\ exitCode = <<>>
  /\ trace = <<>>

NoTags == [generated |-> FALSE, card |-> 0, tags |-> <<>>]

NoDir == [written |-> FALSE, files |-> EmptyMap, reported |-> 0]

\* nothing has been exported
MarkdownIdle ==
  /\ mdCards = <<>>
  /\ mdTags = NoTags
  /\ mdDir = NoDir

NoArray == [held |-> FALSE, array |-> <<>>, shared |-> FALSE]

NoFile == [exists |-> FALSE, content |-> <<>>, lines |-> <<>>]

NotParsed ==
  [called |-> FALSE, error |-> "none", queries |-> <<>>, errors |-> <<>>,
   skipped |-> <<>>, lineCount |-> 0]

Init ==
  /\ cards = <<>>
  /\ nameSetIndex = EmptyMap
  /\ nameOnlyIndex = EmptyMap
  /\ lastQueries = <<>>
  /\ lastResult = NoResult
  /\ lastOp = "new"
  /\ error = "none"
  /\ repeat = FALSE
  /\ loaded = <<>>
  /\ returned = NoArray
  /\ inputFile = NoFile
  /\ parsed = NotParsed
  /\ CliIdle
  /\ MarkdownIdle

\* database.loadFromFile(filePath) returns; this.cards is then the array just
\* parsed, no array a caller holds
LoadFromFile(file) ==
  /\ loadFromFileError(file) = "none"
  /\ \E db \in {loadFromFile(this, file)} :
       /\ cards' = db.cards
       /\ nameSetIndex' = db.nameSetIndex
       /\ nameOnlyIndex' = db.nameOnlyIndex
  /\ lastQueries' = <<>>
  /\ lastResult' = NoResult
  /\ lastOp' = "load"
  /\ error' = "none"
  /\ repeat' = FALSE
  /\ loaded' = file.data
  /\ returned' = [returned EXCEPT !.shared = FALSE]
  /\ UNCHANGED <<inputFile, parsed>>
  /\ UNCHANGED <<cliVars, mdVars>>

\* database.loadFromFile(filePath) throws
LoadFromFileFails(file) ==
  /\ loadFromFileError(file) # "none"
  /\ \E db \in {loadFromFile(this, file)} :
       /\ cards' = db.cards
       /\ nameSetIndex' = db.nameSetIndex
       /\ nameOnlyIndex' = db.nameOnlyIndex
  /\ lastQueries' = <<>>
  /\ lastResult' = NoResult
  /\ lastOp' = "loadFailed"
  /\ error' = loadFromFileError(file)
  /\ repeat' = FALSE
  /\ UNCHANGED <<loaded, returned, inputFile, parsed>>
  /\ UNCHANGED <<cliVars, mdVars>>

\* database.findMatches(queries); repeat records that the call before it,
\* with nothing in between, had the same queries
FindMatches(queries) ==
  /\ \E r \in {findMatches(this, queries)} :
       /\ cards' = r.db.cards
       /\ nameSetIndex' = r.db.nameSetIndex
       /\ nameOnlyIndex' = r.db.nameOnlyIndex
       /\ lastQueries' = queries
       /\ lastResult' = r.result
       /\ lastOp' = "find"
       /\ error' = r.error
       /\ repeat' = (lastOp = "find" /\ lastQueries = queries)
  /\ UNCHANGED <<loaded, returned, inputFile, parsed>>
  /\ UNCHANGED <<cliVars, mdVars>>

Next ==
  \/ \E file \in Files : LoadFromFile(file)
  \/ \E file \in Files : LoadFromFileFails(file)
  \/ \E queries \in QueryLists : FindMatches(queries)

Spec == Init /\ [][Next]_vars

\* ----- a caller that keeps and changes the array of getCards ----------------
CardDataCopy ==
  { [name |-> <<"a", "b">>, set |-> <<"x">>, released_at |-> <<1>>],
    [name |-> <<"a">>,      set |-> <<"y">>, released_at |-> <<2>>] }

QueriesCopy ==
  { [name |-> <<"a">>, set |-> <<"z">>],
    [name |-> <<"b">>, set |-> <<"x">>] }

FilesCopy ==
  { [kind |-> "array", data |-> d] : d \in SeqsUpTo(CardDataCopy, MaxCards) }

QueryListsCopy == SeqsUpTo(QueriesCopy, MaxQueries)

\* a card object the caller made itself
CallerCard ==
  [obj |-> 0, name |-> <<"b">>, set |-> <<"x">>, released_at |-> <<3>>]

ArrayOps == {"push", "pop", "reverse"}

reverse(arr) == [i \in 1..Len(arr) |-> arr[Len(arr) + 1 - i]]

\* Array.prototype.push, pop and reverse on the caller's array
mutateArray(arr, op) ==
  IF op = "push" THEN Append(arr, CallerCard)
  ELSE IF op = "pop" THEN SubSeq(arr, 1, Len(arr) - 1)
  ELSE reverse(arr)

\* const cards = database.getCards()
GetCards ==
  /\ returned' = getCards(this)
  /\ lastQueries' = <<>>
  /\ lastResult' = NoResult
  /\ lastOp' = "getCards"
  /\ error' = "none"
  /\ repeat' = FALSE
  /\ UNCHANGED <<cards, nameSetIndex, nameOnlyIndex, loaded, inputFile, parsed>>
  /\ UNCHANGED <<cliVars, mdVars>>

\* the caller adds, removes or reorders elements of the array it holds; the
\* change shows in this.cards when that is the same array
MutateReturned(op) ==
  /\ returned.held
  /\ op = "push" => Len(returned.array) <= MaxCards
  /\ op = "pop" => Len(returned.array) >= 1
  /\ op = "reverse" => Len(returned.array) >= 2
  /\ returned' = [returned EXCEPT !.array = mutateArray(@, op)]
  /\ cards' = IF returned.shared THEN mutateArray(returned.array, op) ELSE cards
  /\ lastQueries' = <<>>
  /\ lastResult' = NoResult
  /\ lastOp' = "mutate"
  /\ error' = "none"
  /\ repeat' = FALSE
  /\ UNCHANGED <<nameSetIndex, nameOnlyIndex, loaded, inputFile, parsed>>
  /\ UNCHANGED <<cliVars, mdVars>>

NextCopy ==
  \/ \E file \in FilesCopy : LoadFromFile(file)
  \/ \E queries \in QueryListsCopy : FindMatches(queries)
  \/ GetCards
  \/ \E op \in ArrayOps : MutateReturned(op)

SpecCopy == Init /\ [][NextCopy]_vars

\* ----- the file given to the parser --------------------------------------------
MaxLines == 3

InputLines ==
  { <<"a", " ", "[", "X", "]">>,
    <<"2", " ", "a", " ", "[", "X", "]">>,
    <<"#", "c">>,
    <<>>,
    <<" ">>,
    <<"a">>,
    <<"a", " ", "[", "X", "]", "#", "c">>,
    <<"[", "X", "]">>,
    <<" ", "b", "[", " ", "y", " ", "]", " ">> }

Separators == { <<LF>>, <<CR, LF>> }

\* the text of a file whose lines are ls, each two separated by sep
RECURSIVE Join(_, _)
Join(ls, sep) ==
  IF Len(ls) = 1 THEN ls[1]
  ELSE Join(SubSeq(ls, 1, Len(ls) - 1), sep) \o sep \o ls[Len(ls)]

\* lines: the lines the content was put together from
InputFiles ==
  { NoFile } \cup
  { [exists |-> TRUE, content |-> Join(ls, sep), lines |-> ls] :
      ls \in SeqsUpTo(InputLines, MaxLines) \ {<<>>}, sep \in Separators }

InitParse ==
  /\ cards = <<>>
  /\ nameSetIndex = EmptyMap
  /\ nameOnlyIndex = EmptyMap
  /\ lastQueries = <<>>
  /\ lastResult = NoResult
  /\ lastOp = "new"
  /\ error = "none"
  /\ repeat = FALSE
  /\ loaded = <<>>
  /\ returned = NoArray
  /\ inputFile \in InputFiles
  /\ parsed = NotParsed
  /\ CliIdle
  /\ MarkdownIdle

\* parser.parseFile(filePath) returns the queries
ParseFile ==
  /\ ~parsed.called
  /\ \E r \in {parseFile(inputFile)} :
       /\ r.error = "none"
       /\ parsed' = [called |-> TRUE, error |-> r.error, queries |-> r.queries,
                     errors |-> r.errors, skipped |-> r.skipped,
                     lineCount |-> r.lineCount]
  /\ UNCHANGED <<cards, nameSetIndex, nameOnlyIndex, lastQueries, lastResult,
                 lastOp, error, repeat, loaded, returned, inputFile>>
  /\ UNCHANGED <<cliVars, mdVars>>

\* parser.parseFile(filePath) throws
ParseFileFails ==
  /\ ~parsed.called
  /\ \E r \in {parseFile(inputFile)} :
       /\ r.error # "none"
       /\ parsed' = [called |-> TRUE, error |-> r.error, queries |-> <<>>,
                     errors |-> r.errors, skipped |-> r.skipped,
                     lineCount |-> r.lineCount]
  /\ UNCHANGED <<cards, nameSetIndex, nameOnlyIndex, lastQueries, lastResult,
                 lastOp, error, repeat, loaded, returned, inputFile>>
  /\ UNCHANGED <<cliVars, mdVars>>

NextParse ==
  \/ ParseFile
  \/ ParseFileFails

SpecParse == InitParse /\ [][NextParse]_vars

\* ----- the markdown export ------------------------------------------------------
MaxMdCards == 2

\* the character U+2014 of a type line such as "Instant (U+2014) Arcane"
EmDash == "U+2014"

\* keywords, colors: <<>> when the card has no such field, else <<array>>
MdCardData ==
  { [name |-> <<"A", "b">>, type_line |-> <<"A", "b">>,
     keywords |-> << <<>> >>, colors |-> << <<"R">> >>],
    [name |-> <<"a", "b", "!">>, type_line |-> <<"A", "b", " ", EmDash, " ", "B", "a">>,
     keywords |-> << << <<"C", "a">> >> >>, colors |-> << <<"W", "U">> >>],
    [name |-> <<"B", " ", "a">>, type_line |-> <<"B", " ", "o", "f", " ", "C">>,
     keywords |-> <<>>, colors |-> << <<>> >>],
    [name |-> <<"I", "n", "d", "e", "x">>, type_line |-> <<"C", "-", "a">>,
     keywords |-> << << <<"C">> >> >>, colors |-> <<>>] }

InitMarkdown ==
  /\ cards = <<>>
  /\ nameSetIndex = EmptyMap
  /\ nameOnlyIndex = EmptyMap
  /\ lastQueries = <<>>
  /\ lastResult = NoResult
  /\ lastOp = "new"
  /\ error = "none"
  /\ repeat = FALSE
  /\ loaded = <<>>
  /\ returned = NoArray
  /\ inputFile = NoFile
  /\ parsed = NotParsed
  /\ CliIdle
  /\ mdCards \in SeqsUpTo(MdCardData, MaxMdCards)
  /\ mdTags = NoTags
  /\ mdDir = NoDir

\* generator.generateCardMarkdown(mdCards[i])
GenerateCardMarkdown(i) ==
  /\ mdTags' = [generated |-> TRUE, card |-> i,
                tags |-> generateYamlFrontmatter(mdCards[i]).tags]
  /\ UNCHANGED <<cards, nameSetIndex, nameOnlyIndex, lastQueries, lastResult,
                 lastOp, error, repeat, loaded, returned, inputFile, parsed>>
  /\ UNCHANGED <<cliVars, mdCards, mdDir>>

\* markdownWriter.writeCardsToMarkdown(mdCards, { outputDirectory }) into an
\* empty directory
WriteCardsToMarkdown ==
  /\ ~mdDir.written
  /\ mdDir' = writeCardsToMarkdown(mdCards)
  /\ UNCHANGED <<cards, nameSetIndex, nameOnlyIndex, lastQueries, lastResult,
                 lastOp, error, repeat, loaded, returned, inputFile, parsed>>
  /\ UNCHANGED <<cliVars, mdCards, mdTags>>

NextMarkdown ==
  \/ \E i \in DOMAIN mdCards : GenerateCardMarkdown(i)
  \/ WriteCardsToMarkdown

SpecMarkdown == InitMarkdown /\ [][NextMarkdown]_vars

\* ----- the command line tool: runFilter ------------------------------------------
MaxCliLines == 3

CliInputLines ==
  { <<"a", " ", "[", "X", "]">>,
    <<"A", " ", "[", "z", "]">>,
    <<"c", " ", "[", "x", "]">>,
    <<"#", "c">>,
    <<"a">> }

CliInputFiles ==
  { NoFile } \cup
  { [exists |-> TRUE, content |-> Join(ls, <<LF>>), lines |-> ls] :
      ls \in SeqsUpTo(CliInputLines, MaxCliLines) \ {<<>>} }

CliCatalogs ==
  { <<>>,
    << [name |-> <<"a">>, set |-> <<"X">>, released_at |-> <<-1>>] >>,
    << [name |-> <<"a">>, set |-> <<"X">>, released_at |-> <<-1>>],
       [name |-> <<"a", "B">>, set |-> <<"y">>, released_at |-> <<1>>],
       [name |-> <<"a">>, set |-> <<"X">>, released_at |-> <<-1>>] >> }

CliDatabaseFiles ==
  { [kind |-> "missing",  data |-> <<>>],
    [kind |-> "badjson",  data |-> <<>>],
    [kind |-> "notarray", data |-> <<>>] }
  \cup { [kind |-> "array", data |-> d] : d \in CliCatalogs }

\* mtg-filter filter -i <inputFile> -d <databaseFile> -o <outputFile>, with no
\* file at the output path
InitCli ==
  /\ cards = <<>>
  /\ nameSetIndex = EmptyMap
  /\ nameOnlyIndex = EmptyMap
  /\ lastQueries = <<>>
  /\ lastResult = NoResult
  /\ lastOp = "new"
  /\ error = "none"
  /\ repeat = FALSE
  /\ loaded = <<>>
  /\ returned = NoArray
  /\ inputFile \in CliInputFiles
  /\ parsed = NotParsed
  /\ env \in [databaseFile : CliDatabaseFiles, outputWritable : BOOLEAN]
  /\ outputFile = <<>>
  /\ pc = runFilterSteps[1]
  /\ exitCode = <<>>
  /\ trace = <<>>
  /\ MarkdownIdle

\* The statement at pc has run and ended with err ("none": it returned).  In
\* the catch block: console.error(...); process.exit(1).
Transfer(err) ==
  /\ trace' = Append(trace, pc)
  /\ error' = err
  /\ \E next \in {afterStep(pc, err)} :
       /\ pc' = IF next = "catch" THEN "exited" ELSE next
       /\ exitCode' = IF next = "catch" THEN <<1>> ELSE exitCode

\* this.validateFiles(options)
RunValidateFiles ==
  /\ pc = "validateFiles"
  /\ Transfer(validateFiles(inputFile, env.databaseFile))
  /\ UNCHANGED <<cards, nameSetIndex, nameOnlyIndex, lastQueries, lastResult,
                 lastOp, repeat, loaded, returned, inputFile, parsed>>
  /\ UNCHANGED <<env, outputFile, mdVars>>

\* const queries = parser.parseFile(options.inputFile)
RunParseFile ==
  /\ pc = "parseFile"
  /\ \E r \in {parseFile(inputFile)} :
       /\ parsed' = [called |-> TRUE, error |-> r.error,
                     queries |-> IF r.error = "none" THEN r.queries ELSE <<>>,
                     errors |-> r.errors, skipped |-> r.skipped,
                     lineCount |-> r.lineCount]
       /\ Transfer(r.error)
  /\ UNCHANGED <<cards, nameSetIndex, nameOnlyIndex, lastQueries, lastResult,
                 lastOp, repeat, loaded, returned, inputFile>>
  /\ UNCHANGED <<env, outputFile, mdVars>>

\* database.loadFromFile(options.databaseFile)
RunLoadFromFile ==
  /\ pc = "loadFromFile"
  /\ \E db \in {loadFromFile(this, env.databaseFile)} :
       /\ cards' = db.cards
       /\ nameSetIndex' = db.nameSetIndex
       /\ nameOnlyIndex' = db.nameOnlyIndex
  /\ loaded' = IF loadFromFileError(env.databaseFile) = "none"
                 THEN env.databaseFile.data ELSE loaded
  /\ lastOp' = IF loadFromFileError(env.databaseFile) = "none"
                 THEN "load" ELSE "loadFailed"
  /\ Transfer(loadFromFileError(env.databaseFile))
  /\ UNCHANGED <<lastQueries, lastResult, repeat, returned, inputFile, parsed>>
  /\ UNCHANGED <<env, outputFile, mdVars>>

\* const matchResult = database.findMatches(queries)
RunFindMatches ==
  /\ pc = "findMatches"
  /\ \E r \in {findMatches(this, parsed.queries)} :
       /\ cards' = r.db.cards
       /\ nameSetIndex' = r.db.nameSetIndex
       /\ nameOnlyIndex' = r.db.nameOnlyIndex
       /\ lastQueries' = parsed.queries
       /\ lastResult' = r.result
       /\ Transfer(r.error)
  /\ lastOp' = "find"
  /\ UNCHANGED <<repeat, loaded, returned, inputFile, parsed>>
  /\ UNCHANGED <<env, outputFile, mdVars>>

\* writer.writeToFile(matchResult, options.outputFile)
RunWriteToFile ==
  /\ pc = "writeToFile"
  /\ \E r \in {writeToFile(lastResult, env.outputWritable)} :
       /\ outputFile' = r.file
       /\ Transfer(r.error)
  /\ UNCHANGED <<cards, nameSetIndex, nameOnlyIndex, lastQueries, lastResult,
                 lastOp, repeat, loaded, returned, inputFile, parsed>>
  /\ UNCHANGED <<env, mdVars>>

\* the console.log calls of the summary; runFilter returns
RunSummary ==
  /\ pc = "summary"
  /\ Transfer("none")
  /\ UNCHANGED <<cards, nameSetIndex, nameOnlyIndex, lastQueries, lastResult,
                 lastOp, repeat, loaded, returned, inputFile, parsed>>
  /\ UNCHANGED <<env, outputFile, mdVars>>

NextCli ==
  \/ RunValidateFiles
  \/ RunParseFile
  \/ RunLoadFromFile
  \/ RunFindMatches
  \/ RunWriteToFile
  \/ RunSummary

SpecCli == InitCli /\ [][NextCli]_vars

\* ----- names that hold one another, and the empty name ----------------------------
CardDataNames ==
  { [name |-> <<"a", "b">>, set |-> <<"x">>, released_at |-> <<1>>],
    [name |-> <<"a", "b">>, set |-> <<"y">>, released_at |-> <<2>>],
    [name |-> <<"a">>,      set |-> <<"y">>, released_at |-> <<3>>],
    [name |-> <<" ">>,      set |-> <<"x">>, released_at |-> <<0>>] }

QueriesNames ==
  { [name |-> <<"a">>,      set |-> <<"x">>],
    [name |-> <<"A", " ">>, set |-> <<"z">>],
    [name |-> <<"c">>,      set |-> <<"z">>],
    [name |-> <<>>,         set |-> <<"x">>] }

FilesNames ==
  { [kind |-> "missing",  data |-> <<>>],
    [kind |-> "badjson",  data |-> <<>>],
    [kind |-> "notarray", data |-> <<>>] }
  \cup { [kind |-> "array", data |-> d] : d \in SeqsUpTo(CardDataNames, MaxCards) }

QueryListsNames == SeqsUpTo(QueriesNames, MaxQueries)

NextNames ==
  \/ \E file \in FilesNames : LoadFromFile(file)
  \/ \E file \in FilesNames : LoadFromFileFails(file)
  \/ \E queries \in QueryListsNames : FindMatches(queries)

SpecNames == Init /\ [][NextNames]_vars

\* ----- names and set codes that hold the key separator ---------------------
MaxCardsSep == 3

CardDataSep ==
  { [name |-> <<"a", "|">>, set |-> <<"b">>,      released_at |-> <<1>>],
    [name |-> <<"a">>,      set |-> <<"|", "b">>, released_at |-> <<2>>],
    [name |-> <<"a">>,      set |-> <<"y">>,      released_at |-> <<3>>] }

QueriesSep ==
  { [name |-> <<"A", "|">>, set |-> <<"b">>],
    [name |-> <<"a">>,      set |-> <<"|", "B">>] }

FilesSep ==
  { [kind |-> "missing",  data |-> <<>>],
    [kind |-> "badjson",  data |-> <<>>],
    [kind |-> "notarray", data |-> <<>>] }
  \cup { [kind |-> "array", data |-> d] : d \in SeqsUpTo(CardDataSep, MaxCardsSep) }

QueryListsSep == SeqsUpTo(QueriesSep, MaxQueries)

NextSep ==
  \/ \E file \in FilesSep : LoadFromFile(file)
  \/ \E file \in FilesSep : LoadFromFileFails(file)
  \/ \E queries \in QueryListsSep : FindMatches(queries)

SpecSep == Init /\ [][NextSep]_vars

\* ===== properties ============================================================
\* The vocabulary of the properties is defined on its own, not through the
\* operators of the code above.
Range(seq) == { seq[i] : i \in DOMAIN seq }

UpperToLower ==
  ("A" :> "a") @@ ("B" :> "b") @@ ("C" :> "c") @@
  ("X" :> "x") @@ ("Y" :> "y") @@ ("Z" :> "z")

FoldChar(c) == IF c \in DOMAIN UpperToLower THEN UpperToLower[c] ELSE c

NonBlank(str) == { i \in 1..Len(str) : str[i] # " " }

Core(str) ==
  IF NonBlank(str) = {} THEN <<>>
  ELSE SubSeq(str,
              CHOOSE i \in NonBlank(str) : \A k \in NonBlank(str) : i <= k,
              CHOOSE j \in NonBlank(str) : \A k \in NonBlank(str) : k <= j)

\* str up to letter case and leading/trailing whitespace
Fold(str) == [i \in 1..Len(Core(str)) |-> FoldChar(Core(str)[i])]

Infix(needle, hay) ==
  \E i \in 1..(Len(hay) + 1) : \E j \in (i - 1)..Len(hay) :
     SubSeq(hay, i, j) = needle

SameName(query, card) == Fold(query.name) = Fold(card.name)

SameNameAndSet(query, card) ==
  SameName(query, card) /\ Fold(query.set) = Fold(card.set)

\* the name of the card contains the name of the query or is contained in it
RelatedName(query, card) ==
  \/ Infix(Fold(query.name), Fold(card.name))
  \/ Infix(Fold(card.name), Fold(query.name))

Matches == Range(lastResult.matches)

\* C1 as stated: for every record R of the catalog, a query whose name and
\* set equal R's up to case and outer whitespace gets an 'exact' match whose
\* card is R itself (here: a card with R's name, set and released_at as
\* spelled in the catalog, which R itself has).
C1_ExactReturnsThatRecord ==
  \A i \in DOMAIN lastQueries : \A j \in DOMAIN cards :
     SameNameAndSet(lastQueries[i], cards[j])
       => \E m \in Matches :
            /\ m.query = lastQueries[i] /\ m.matchType = "exact"
            /\ m.card.name = cards[j].name /\ m.card.set = cards[j].set
            /\ m.card.released_at = cards[j].released_at

\* the key of the exact index: normalized name, separator, normalized set
KeyOf(x) == Fold(x.name) \o <<"|">> \o Fold(x.set)

\* C1 amended: such a query gets an 'exact' match whose card is the first
\* record in catalog order whose index key (normalized name, "|", normalized
\* set) equals the query's key: R itself when no earlier record has that
\* key; and it gets no other outcome.
C1_ExactReturnsFirstRecord ==
  \A i \in DOMAIN lastQueries : \A j \in DOMAIN cards :
     LET query == lastQueries[i]
         first == CHOOSE k \in DOMAIN cards :
                    /\ KeyOf(query) = KeyOf(cards[k])
                    /\ \A l \in 1..(k - 1) : KeyOf(query) # KeyOf(cards[l])
     IN SameNameAndSet(query, cards[j])
          => /\ \E m \in Matches : m.query = query
             /\ \A m \in Matches :
                  m.query = query => m.matchType = "exact" /\ m.card = cards[first]
             /\ query \notin Range(lastResult.unmatched)

\* an exact match of a query spelled differently from the record, with a
\* second record of the same name and set later in the catalog
C1_Witness ==
  \E m \in Matches : \E j \in DOMAIN cards :
     /\ m.matchType = "exact"
     /\ m.query.name # m.card.name /\ m.query.set # m.card.set
     /\ SameNameAndSet(m.query, cards[j])
     /\ cards[j] # m.card

\* ----- recency, as the specification words it --------------------------------
\* a is strictly more recent than b; a card without a date is earlier than
\* every card that has one
MoreRecent(a, b) ==
  /\ a.released_at # <<>>
  /\ b.released_at = <<>> \/ a.released_at[1] > b.released_at[1]

\* among the catalog positions S (not empty): the most recent card, and of
\* those equally recent the one earliest in catalog order
MostRecentOf(S) ==
  CHOOSE k \in S :
    /\ \A l \in S : ~MoreRecent(cards[l], cards[k])
    /\ \A l \in S : l < k => MoreRecent(cards[k], cards[l])

SameNameCards(query) == { k \in DOMAIN cards : SameName(query, cards[k]) }

RelatedCards(query) == { k \in DOMAIN cards : RelatedName(query, cards[k]) }

ExactCards(query) == { k \in DOMAIN cards : SameNameAndSet(query, cards[k]) }

\* C2: a query whose name is in the catalog, but with no record of that name
\* and the query's set, gets a 'fallback' match with the record of maximum
\* released_at among the records of that name, the earliest in catalog order
\* among equally recent ones, whatever calls came before.
C2_FallbackReturnsMostRecent ==
  \A i \in DOMAIN lastQueries :
     LET query == lastQueries[i]
     IN (SameNameCards(query) # {} /\ ExactCards(query) = {})
          => /\ \E m \in Matches : m.query = query
             /\ \A m \in Matches :
                  m.query = query
                    => /\ m.matchType = "fallback"
                       /\ m.card = cards[MostRecentOf(SameNameCards(query))]

\* C3: a query whose name no record has, but whose name contains or is
\* contained in some record's name, gets a 'fallback' match with the most
\* recent of all those records of the catalog (ties by catalog order).
C3_PartialReturnsMostRecent ==
  \A i \in DOMAIN lastQueries :
     LET query == lastQueries[i]
     IN (SameNameCards(query) = {} /\ RelatedCards(query) # {})
          => /\ \E m \in Matches : m.query = query
             /\ \A m \in Matches :
                  m.query = query
                    => /\ m.matchType = "fallback"
                       /\ m.card = cards[MostRecentOf(RelatedCards(query))]

\* C4: a query is in unmatched exactly when no record's name equals,
\* contains or is contained in its name; no error is raised, and it is in
\* unmatched as it was given.
C4_UnmatchedIffNoRelatedRecord ==
  /\ lastOp = "find" => error = "none"
  /\ Range(lastResult.unmatched) \subseteq Range(lastQueries)
  /\ \A i \in DOMAIN lastQueries :
       LET query == lastQueries[i]
       IN /\ query \in Range(lastResult.unmatched) <=> RelatedCards(query) = {}
          /\ query \in Range(lastResult.unmatched)
               => ~\E m \in Matches : m.query = query

\* a call on a loaded catalog that left one query unmatched and matched
\* another by containment only
C4_Witness ==
  /\ lastOp = "find" /\ cards # <<>>
  /\ lastResult.unmatched # <<>>
  /\ \E m \in Matches : ~SameName(m.query, m.card)

Count(seq, x) == Cardinality({ i \in DOMAIN seq : seq[i] = x })

MatchedQueries == [i \in DOMAIN lastResult.matches |-> lastResult.matches[i].query]

\* C5: |matches| + |unmatched| = |queries|, and every query occurs in the
\* two lists together as often as in the input, in one list only.
C5_EveryQueryOneOutcome ==
  /\ Len(lastResult.matches) + Len(lastResult.unmatched) = Len(lastQueries)
  /\ \A query \in Queries :
       /\ Count(lastQueries, query)
            = Count(MatchedQueries, query) + Count(lastResult.unmatched, query)
       /\ Count(MatchedQueries, query) = 0 \/ Count(lastResult.unmatched, query) = 0

\* the same query twice in one call, with two outcomes in one list
C5_Witness ==
  /\ lastOp = "find"
  /\ \E i, j \in DOMAIN lastQueries : i # j /\ lastQueries[i] = lastQueries[j]
  /\ Len(lastResult.unmatched) = 2 \/ Len(lastResult.matches) = 2

\* C6: after any findMatches call the cards array and both indices hold the
\* same keys and, under every key, the same records in the same order as
\* right after loadFromFile.
C6_IndicesAsLoaded ==
  \E built \in {buildIndex(cards)} :
     /\ nameSetIndex = built.nameSetIndex
     /\ nameOnlyIndex = built.nameOnlyIndex

\* C7: findMatches called again with the same queries returns the same
\* matches and the same unmatched list as the call before it.
C7_SecondCallSameResult ==
  lastOp = "find"
    => \E r \in {findMatches(this, lastQueries)} :
         r.error = "none" /\ r.result = lastResult

\* the second of two calls in a row with the same queries, on a name-only
\* index that an earlier call has reordered
C7_Witness ==
  /\ repeat
  /\ \E m \in Matches : m.matchType = "fallback" /\ SameName(m.query, m.card)
  /\ nameOnlyIndex # buildIndex(cards).nameOnlyIndex

\* the database as loadFromFile leaves it for the current catalog
FreshDb ==
  [cards |-> cards, nameSetIndex |-> buildIndex(cards).nameSetIndex,
   nameOnlyIndex |-> buildIndex(cards).nameOnlyIndex]

RECURSIVE ResolvedAlone(_)
ResolvedAlone(n) ==
  IF n = 0 THEN NoResult
  ELSE LET before == ResolvedAlone(n - 1)
           alone == findMatches(FreshDb, <<lastQueries[n]>>).result
       IN [matches |-> before.matches \o alone.matches,
           unmatched |-> before.unmatched \o alone.unmatched]

\* C8: the outcome of every query is the one it gets when resolved alone on
\* a freshly loaded copy of the catalog, whatever was resolved before it.
C8_OutcomeIndependentOfHistory ==
  lastOp = "find" => lastResult = ResolvedAlone(Len(lastQueries))

\* two fallback matches of one name in a single call, the second one served
\* from an index entry that is no longer in catalog order
C8_Witness ==
  /\ lastOp = "find" /\ ~repeat
  /\ Len(lastResult.matches) = 2
  /\ \A m \in Matches : m.matchType = "fallback" /\ SameName(m.query, m.card)
  /\ nameOnlyIndex # buildIndex(cards).nameOnlyIndex

\* the records getMostRecentCard chose among for the query
Candidates(query) ==
  IF SameNameCards(query) # {} THEN SameNameCards(query) ELSE RelatedCards(query)

\* C9: getMostRecentCard selects a record without released_at only when every
\* candidate lacks one, and then the first in candidate order.
C9_AbsentDateIsEarliest ==
  \A m \in Matches :
     (m.matchType = "fallback" /\ m.card.released_at = <<>>)
       => /\ \A k \in Candidates(m.query) : cards[k].released_at = <<>>
          /\ \A k \in Candidates(m.query) : m.card.obj <= k

\* C10: the tiers apply in strict order: a query with a record of its name
\* and set is matched 'exact' by such a record; otherwise a query with a
\* record of its name is matched by a record of that name, never by one
\* whose name only contains or is contained in it.
C10_TiersInStrictOrder ==
  \A m \in Matches :
     /\ ExactCards(m.query) # {}
          => m.matchType = "exact" /\ SameNameAndSet(m.query, m.card)
     /\ (ExactCards(m.query) = {} /\ SameNameCards(m.query) # {})
          => m.matchType = "fallback" /\ SameName(m.query, m.card)
     /\ SameNameCards(m.query) = {}
          => m.matchType = "fallback" /\ RelatedName(m.query, m.card)

\* a name-only match although a record whose name merely contains the
\* query's name is more recent than the record returned
C10_Witness ==
  \E m \in Matches : \E k \in DOMAIN cards :
     /\ m.matchType = "fallback" /\ SameName(m.query, m.card)
     /\ ~SameName(m.query, cards[k]) /\ RelatedName(m.query, cards[k])
     /\ MoreRecent(cards[k], m.card)

\* C11: when several records share the query's name and set, the exact tier
\* returns the first of them in the catalog array, not the most recent, also
\* after earlier fallback resolutions of the name.
C11_ExactReturnsFirstInCatalog ==
  \A m \in Matches :
     Cardinality(ExactCards(m.query)) >= 2
       => /\ m.matchType = "exact"
          /\ m.card.obj \in ExactCards(m.query)
          /\ \A k \in ExactCards(m.query) : m.card.obj <= k

\* C12: a match is 'exact' exactly when some record has both the query's
\* name and its set; every other match is 'fallback'.
C12_ExactIffNameAndSet ==
  \A m \in Matches :
     /\ m.matchType \in {"exact", "fallback"}
     /\ m.matchType = "exact" <=> ExactCards(m.query) # {}

\* ----- order, spelling, identity ---------------------------------------------
RECURSIVE IsSubsequence(_, _)
IsSubsequence(sub, seq) ==
  IF sub = <<>> THEN TRUE
  ELSE IF seq = <<>> THEN FALSE
  ELSE IF Head(sub) = Head(seq) THEN IsSubsequence(Tail(sub), Tail(seq))
  ELSE IsSubsequence(sub, Tail(seq))

\* C13: the queries of matches, and unmatched, are each a subsequence of the
\* input query list: queries in one list keep their input order.
C13_BucketsKeepInputOrder ==
  /\ IsSubsequence(MatchedQueries, lastQueries)
  /\ IsSubsequence(lastResult.unmatched, lastQueries)

\* two different queries matched by one call on a loaded catalog
C13_Witness ==
  /\ cards # <<>>
  /\ Len(lastResult.matches) >= 2
  /\ lastResult.matches[1].query # lastResult.matches[2].query

LowerToUpper ==
  ("a" :> "A") @@ ("b" :> "B") @@ ("c" :> "C") @@
  ("x" :> "X") @@ ("y" :> "Y") @@ ("z" :> "Z")

SwapCase(c) ==
  IF c \in DOMAIN UpperToLower THEN UpperToLower[c]
  ELSE IF c \in DOMAIN LowerToUpper THEN LowerToUpper[c]
  ELSE c

\* str with the case of every letter changed and a blank added on both sides
Respell(str) == <<" ">> \o [i \in 1..Len(str) |-> SwapCase(str[i])] \o <<" ">>

RespellQuery(query) == [name |-> Respell(query.name), set |-> Respell(query.set)]

\* what a result says of every query: the list, the card and the matchType
Selected(result) ==
  [i \in DOMAIN result.matches |->
     [obj |-> result.matches[i].card.obj,
      matchType |-> result.matches[i].matchType]]

\* the catalog with every name and set spelled differently, freshly indexed
RespelledDb ==
  LET cs == [i \in DOMAIN cards |->
               [cards[i] EXCEPT !.name = Respell(@), !.set = Respell(@)]]
  IN [cards |-> cs, nameSetIndex |-> buildIndex(cs).nameSetIndex,
      nameOnlyIndex |-> buildIndex(cs).nameOnlyIndex]

\* C14: queries that differ from the given ones only in letter case and outer
\* whitespace get the same outcome (same list, same card, same matchType),
\* and so do the given queries on a catalog whose names and sets differ only
\* in letter case and outer whitespace.
C14_CaseAndWhitespaceIgnored ==
  (lastOp = "find" /\ error = "none") =>
    /\ \E r \in {findMatches(this,
                   [i \in DOMAIN lastQueries |-> RespellQuery(lastQueries[i])])} :
         /\ r.error = "none"
         /\ Selected(r.result) = Selected(lastResult)
         /\ [i \in DOMAIN r.result.matches |-> r.result.matches[i].query]
              = [i \in DOMAIN MatchedQueries |-> RespellQuery(MatchedQueries[i])]
         /\ r.result.unmatched
              = [i \in DOMAIN lastResult.unmatched |->
                   RespellQuery(lastResult.unmatched[i])]
    /\ \E r \in {findMatches(RespelledDb, lastQueries)} :
         /\ r.error = "none"
         /\ Selected(r.result) = Selected(lastResult)
         /\ r.result.unmatched = lastResult.unmatched

\* a call that matched one query 'exact' and another 'fallback', with two
\* different records
C14_Witness ==
  /\ lastOp = "find"
  /\ \E m1, m2 \in Matches :
        /\ m1.matchType = "exact" /\ m2.matchType = "fallback"
        /\ m1.card.obj # m2.card.obj

\* the loaded catalog: one object per element of the parsed array
AsLoaded ==
  [i \in DOMAIN loaded |->
     [obj |-> i, name |-> loaded[i].name, set |-> loaded[i].set,
      released_at |-> loaded[i].released_at]]

\* C15: every card in matches is one of the records of the loaded catalog,
\* with its name, set and released_at as loaded.
C15_MatchedCardsAreCatalogRecords ==
  \A m \in Matches :
     /\ m.card.obj \in DOMAIN loaded
     /\ m.card = AsLoaded[m.card.obj]

\* a fallback match of a query whose name and set are spelled differently
\* from the record's
C15_Witness ==
  \E m \in Matches :
     /\ m.matchType = "fallback"
     /\ m.query.name # m.card.name /\ m.query.set # m.card.set
     /\ Fold(m.query.name) # Fold(m.card.name)

\* C16: with no cards getCardCount is 0, and findMatches raises no error and
\* returns every query in unmatched, in input order, and no match.
C16_EmptyCatalogAllUnmatched ==
  cards = <<>> =>
    /\ getCardCount(this) = 0
    /\ lastOp = "find" =>
         /\ error = "none"
         /\ lastResult.matches = <<>>
         /\ lastResult.unmatched = lastQueries

\* findMatches of two queries on a database without cards
C16_Witness ==
  /\ cards = <<>> /\ lastOp = "find" /\ Len(lastQueries) >= 2

\* C17: loadFromFile raises its error for a missing file, for invalid JSON
\* and for JSON that is no array, and leaves cards and both indices as they
\* were: after a failed load the catalog is still the one loaded before.
C17_FailedLoadChangesNothing ==
  /\ \A file \in Files :
       file.kind # "array" =>
         /\ loadFromFileError(file)
              = CASE file.kind = "missing" -> "Database file not found"
                  [] file.kind = "badjson" -> "Invalid JSON in database file"
                  [] file.kind = "notarray"
                       -> "Database file must contain an array of card objects"
         /\ loadFromFile(this, file) = this
  /\ lastOp = "loadFailed" => error # "none" /\ cards = AsLoaded

\* a failed load on a database that holds a catalog
C17_Witness ==
  /\ lastOp = "loadFailed" /\ cards # <<>>

\* ----- getCards ------------------------------------------------------------------
\* the database as loadFromFile leaves it with the array last loaded
LoadedDb ==
  [cards |-> AsLoaded, nameSetIndex |-> buildIndex(AsLoaded).nameSetIndex,
   nameOnlyIndex |-> buildIndex(AsLoaded).nameOnlyIndex]

\* C18: getCards returns a new array holding the records of the catalog, and
\* whatever the caller does to an array it got, getCardCount, the result of
\* getCards and the outcome of findMatches stay those of the loaded catalog.
C18_ReturnedArrayIsACopy ==
  /\ getCardCount(this) = Len(loaded)
  /\ getCards(this).array = AsLoaded
  /\ lastOp = "getCards" => returned.array = AsLoaded /\ ~returned.shared
  /\ lastOp = "find" =>
       /\ error = "none"
       /\ lastResult = findMatches(LoadedDb, lastQueries).result

\* findMatches, with a query matched by containment, while the caller holds
\* an array from getCards to which it has added a card of its own
C18_Witness ==
  /\ lastOp = "find" /\ loaded # <<>>
  /\ CallerCard \in Range(returned.array)
  /\ \E m \in Matches : ~SameName(m.query, m.card)

\* ----- the parser ------------------------------------------------------------------
Blank(line) == NonBlank(line) = {}

Comment(line) == ~Blank(line) /\ Core(line)[1] = "#"

\* the line without its comment and without outer blanks
Clean(line) ==
  Core(SubSeq(line, 1,
              Cardinality({ i \in DOMAIN line :
                              \A k \in 1..i : line[k] # "#" })))

\* name [SET], a count before the name being part of that text: a "[" with
\* something but blanks before it, and after it something but blanks and no
\* "]" up to the "]" that ends the line
WellFormed(line) ==
  LET s == Clean(line)
  IN \E b \in 1..Len(s) :
        /\ s[b] = "[" /\ s[Len(s)] = "]"
        /\ ~Blank(SubSeq(s, 1, b - 1))
        /\ ~Blank(SubSeq(s, b + 1, Len(s) - 1))
        /\ \A k \in (b + 1)..(Len(s) - 1) : s[k] # "]"

Skipped == { i \in DOMAIN inputFile.lines :
               Blank(inputFile.lines[i]) \/ Comment(inputFile.lines[i]) }

Accepted == { i \in DOMAIN inputFile.lines \ Skipped :
                WellFormed(inputFile.lines[i]) }

Malformed == (DOMAIN inputFile.lines \ Skipped) \ Accepted

LineNumbers(seq) == [k \in DOMAIN seq |-> seq[k].lineNumber]

C20_EveryLineClassifiedOnce ==
  (parsed.called /\ inputFile.exists) =>
    /\ parsed.lineCount = Len(inputFile.lines)
    /\ Len(parsed.skipped) + Len(parsed.queries) + Len(parsed.errors)
         = Len(inputFile.lines)
    /\ Range(parsed.skipped) = Skipped
    /\ Range(LineNumbers(parsed.errors)) = Malformed
    /\ parsed.error = "none" => Range(LineNumbers(parsed.queries)) = Accepted
    /\ parsed.error # "none" => Accepted = {}

\* a query returned from a line after a malformed line
C20_Witness ==
  /\ parsed.called /\ parsed.errors # <<>> /\ parsed.queries # <<>>
  /\ parsed.queries[Len(parsed.queries)].lineNumber > parsed.errors[1].lineNumber

\* C21: parseFile throws 'Input file not found' when the file does not exist,
\* throws 'No valid card queries found in input file' exactly when the file
\* exists and none of its lines yields a query, and never returns an empty
\* list.
C21_ThrowsWhenNoQueries ==
  parsed.called =>
    /\ ~inputFile.exists => parsed.error = "Input file not found"
    /\ inputFile.exists =>
         /\ parsed.error \in {"none", "No valid card queries found in input file"}
         /\ parsed.error = "No valid card queries found in input file"
              <=> Accepted = {}
    /\ parsed.error = "none" => parsed.queries # <<>>

\* the throw for a file that exists and holds a malformed and a skipped line
C21_Witness ==
  /\ parsed.called /\ inputFile.exists
  /\ parsed.error = "No valid card queries found in input file"
  /\ Malformed # {} /\ Skipped # {}

\* ----- the markdown export ---------------------------------------------------------
\* the words of a type line: what stands between blanks and dashes
TypeWordChars == AsciiLower \cup AsciiUpper

TypeWords(typeLine) ==
  { SubSeq(typeLine, i, j) : i \in 1..Len(typeLine), j \in 1..Len(typeLine) } \cap
  { w \in UNION { [1..k -> TypeWordChars] : k \in 1..Len(typeLine) } :
      \E i \in 1..Len(typeLine) :
         /\ i + Len(w) - 1 <= Len(typeLine)
         /\ SubSeq(typeLine, i, i + Len(w) - 1) = w
         /\ i = 1 \/ typeLine[i - 1] \notin TypeWordChars
         /\ i + Len(w) - 1 = Len(typeLine)
              \/ typeLine[i + Len(w)] \notin TypeWordChars }

LowerCased(str) == [i \in 1..Len(str) |-> FoldChar(str[i])]

ColourTag(c) ==
  CASE c = "W" -> <<"w", "h", "i", "t", "e">>
    [] c = "U" -> <<"b", "l", "u", "e">>
    [] c = "B" -> <<"b", "l", "a", "c", "k">>
    [] c = "R" -> <<"r", "e", "d">>
    [] c = "G" -> <<"g", "r", "e", "e", "n">>

Colourless == <<"c", "o", "l", "o", "r", "l", "e", "s", "s">>

UndefinedColour ==
  <<"u", "n", "d", "e", "f", "i", "n", "e", "d", "-", "c", "o", "l", "o", "r">>

\* C22: the tags of the frontmatter of a card hold, lower-cased, every word
\* of its type line, every one of its keywords, and a colour tag for each of
\* its colours: 'colorless' for no colours, 'undefined-color' for no colors
\* field.
C22_TagsOfTypeKeywordsColours ==
  mdTags.generated =>
    LET card == mdCards[mdTags.card]
        tags == Range(mdTags.tags)
    IN /\ \A w \in TypeWords(card.type_line) : LowerCased(w) \in tags
       /\ card.keywords # <<>> =>
            \A k \in DOMAIN card.keywords[1] : LowerCased(card.keywords[1][k]) \in tags
       /\ card.colors = <<>> => UndefinedColour \in tags
       /\ (card.colors # <<>> /\ card.colors[1] = <<>>) => Colourless \in tags
       /\ card.colors # <<>> =>
            \A k \in DOMAIN card.colors[1] : ColourTag(card.colors[1][k]) \in tags

CardFiles == DOMAIN mdDir.files \ {IndexFileName}

\* C30: after writeCardsToMarkdown the directory holds index.md and one card
\* file for each element of cards: as many card files as cards reported.
C30_OneFilePerCard ==
  mdDir.written =>
    /\ IndexFileName \in DOMAIN mdDir.files
    /\ mdDir.files[IndexFileName].kind = "index"
    /\ Cardinality(CardFiles) = Len(mdCards)
    /\ Cardinality(CardFiles) = mdDir.reported
    /\ \A i \in DOMAIN mdCards :
          \E f \in CardFiles : mdDir.files[f].title = mdCards[i].name

\* ----- the command line tool ---------------------------------------------------------
\* the properties of a card that a JSON file shows
SameProperties(json, card) ==
  /\ json.name = card.name
  /\ json.set = card.set
  /\ json.released_at = card.released_at

\* C23: the array writeToFile writes has one element for each element of
\* matchResult.matches, in the same order, each the card of that match, and
\* nothing for an unmatched query: a record matched twice is written twice.
C23_OneCardPerMatch ==
  outputFile # <<>> =>
    /\ Len(outputFile[1]) = Len(lastResult.matches)
    /\ \A i \in DOMAIN lastResult.matches :
          SameProperties(outputFile[1][i], lastResult.matches[i].card)

\* a file written for two queries resolved to one record and a third unmatched
C23_Witness ==
  /\ outputFile # <<>>
  /\ Len(lastResult.matches) = 2
  /\ lastResult.matches[1].card = lastResult.matches[2].card
  /\ lastResult.unmatched # <<>>
  /\ outputFile[1][1] = outputFile[1][2]

StepOrder ==
  <<"validateFiles", "parseFile", "loadFromFile", "findMatches", "writeToFile">>

IsPrefix(s, t) == Len(s) <= Len(t) /\ s = SubSeq(t, 1, Len(s))

\* the first step that cannot succeed for the files of the run, 0 when every
\* step can
FailingStep ==
  IF ~inputFile.exists \/ env.databaseFile.kind = "missing" THEN 1
  ELSE IF Accepted = {} THEN 2
  ELSE IF env.databaseFile.kind # "array" THEN 3
  ELSE IF ~env.outputWritable THEN 5
  ELSE 0

StepsBegun == SelectSeq(trace, LAMBDA s : s \in Range(StepOrder))

\* C26: runFilter begins its steps in the order validateFiles, parseFile,
\* loadFromFile, findMatches, writeToFile; once a step has raised an error no
\* later step begins, no output file is written and the process has exited
\* with status 1; no output file comes from an input without valid queries or
\* from an invalid database.
C26_StepsInOrderErrorStops ==
  /\ IsPrefix(StepsBegun, StepOrder)
  /\ error # "none" =>
       /\ pc = "exited"
       /\ exitCode = <<1>>
       /\ outputFile = <<>>
       /\ FailingStep # 0
       /\ StepsBegun = SubSeq(StepOrder, 1, FailingStep)
  /\ (FailingStep # 0 /\ Len(StepsBegun) >= FailingStep) => error # "none"
  /\ outputFile # <<>> => (StepsBegun = StepOrder /\ FailingStep = 0)
  /\ (Accepted = {} \/ env.databaseFile.kind # "array") => outputFile = <<>>

\* the exit on an invalid database, after the input was parsed into queries
C26_Witness ==
  /\ pc = "exited"
  /\ exitCode = <<1>>
  /\ StepsBegun = SubSeq(StepOrder, 1, 3)
  /\ parsed.queries # <<>>
  /\ outputFile = <<>>

\* ----- the recency selector is never given nothing ------------------------------------
\* C24: no findMatches call, after whatever loads and calls, ends in the error
\* 'Cannot get most recent card from empty array'.
C24_NeverEmptyCandidates ==
  /\ error # "Cannot get most recent card from empty array"
  /\ \A queries \in QueryLists :
        findMatches(this, queries).error
          # "Cannot get most recent card from empty array"

\* a call that went through the name-only tier, that found a record by the
\* partial scan, and whose partial scan found nothing for another query
C24_Witness ==
  /\ lastOp = "find" /\ error = "none"
  /\ cards # <<>>
  /\ lastResult.unmatched # <<>>
  /\ \E m \in Matches : m.matchType = "fallback" /\ ~SameName(m.query, m.card)
  /\ \E queries \in QueryLists :
        \E m \in Range(findMatches(this, queries).result.matches) :
           m.matchType = "fallback" /\ SameName(m.query, m.card)

\* ----- the indices after a load -------------------------------------------------------
\* the records of the catalog that have key k, in catalog order
RecordsUnder(Key(_), k) == SelectSeq(cards, LAMBDA c : Key(c) = k)

NameKeyOf(x) == Fold(x.name)

\* C25: after a successful loadFromFile the catalog is the array just loaded,
\* and each index holds, for every key of a record of that catalog and for no
\* other key, the records of the catalog with that key, each once, duplicates
\* included, in catalog order.
C25_IndicesDescribeLastCatalog ==
  lastOp = "load" =>
    /\ cards = AsLoaded
    /\ DOMAIN nameSetIndex = { KeyOf(c) : c \in Range(cards) }
    /\ \A k \in DOMAIN nameSetIndex : nameSetIndex[k] = RecordsUnder(KeyOf, k)
    /\ DOMAIN nameOnlyIndex = { NameKeyOf(c) : c \in Range(cards) }
    /\ \A k \in DOMAIN nameOnlyIndex : nameOnlyIndex[k] = RecordsUnder(NameKeyOf, k)

\* a load of a catalog with the same record twice, after the caller got the
\* array of an earlier catalog that held a record this one does not hold
C25_Witness ==
  /\ lastOp = "load"
  /\ \E k \in DOMAIN nameSetIndex : Len(nameSetIndex[k]) >= 2
  /\ returned.held
  /\ \E e \in Range(returned.array) :
        /\ e # CallerCard
        /\ \A c \in Range(cards) : c.name # e.name

\* ----- the key separator, the set of a query, the empty name --------------------------
\* C27: the card of every 'exact' match has the query's normalized name and
\* the query's normalized set, also for names and sets that hold "|".
C27_ExactHasQueryNameAndSet ==
  \A m \in Matches :
     m.matchType = "exact" =>
       /\ Fold(m.card.name) = Fold(m.query.name)
       /\ Fold(m.card.set) = Fold(m.query.set)

\* a record is stored under the key of the query
HitsExactTier(query) == \E k \in DOMAIN cards : KeyOf(cards[k]) = KeyOf(query)

\* what a query got: the cards matched for it and whether it is unmatched
OutcomeOf(query) ==
  [cards |-> { m.card : m \in { x \in Matches : x.query = query } },
   unmatched |-> query \in Range(lastResult.unmatched)]

\* C28: two queries of one call with the same normalized name and different
\* sets, neither with a record under its index key, get the same outcome: the
\* same card, or both unmatched.
C28_SetIgnoredBelowExactTier ==
  \A i, j \in DOMAIN lastQueries :
     LET q1 == lastQueries[i]
         q2 == lastQueries[j]
     IN (/\ Fold(q1.name) = Fold(q2.name)
         /\ Fold(q1.set) # Fold(q2.set)
         /\ ~HitsExactTier(q1) /\ ~HitsExactTier(q2))
        => /\ OutcomeOf(q1) = OutcomeOf(q2)
           /\ Cardinality(OutcomeOf(q1).cards) <= 1
           /\ OutcomeOf(q1).unmatched <=> OutcomeOf(q1).cards = {}

\* two such queries matched by the partial scan with a record of another set,
\* more recent than a candidate printed in the set of the first query
C28_Witness ==
  /\ lastOp = "find" /\ Len(lastQueries) = 2
  /\ Fold(lastQueries[1].name) = Fold(lastQueries[2].name)
  /\ Fold(lastQueries[1].set) # Fold(lastQueries[2].set)
  /\ ~HitsExactTier(lastQueries[1]) /\ ~HitsExactTier(lastQueries[2])
  /\ \E m \in Matches : \E k \in DOMAIN cards :
        /\ m.query = lastQueries[1]
        /\ ~SameName(m.query, m.card)
        /\ Fold(m.card.set) # Fold(m.query.set)
        /\ Fold(cards[k].set) = Fold(m.query.set)
        /\ RelatedName(m.query, cards[k]) /\ ~SameName(m.query, cards[k])
        /\ MoreRecent(m.card, cards[k])

HasEmptyName == \E k \in DOMAIN cards : Fold(cards[k].name) = <<>>

\* C29: with a record in the catalog whose normalized name is empty, every
\* query of every call is matched: unmatched is empty, and a query without a
\* record of its name is a 'fallback' match.
C29_EmptyNameMatchesEverything ==
  (HasEmptyName /\ lastOp = "find") =>
    /\ error = "none"
    /\ lastResult.unmatched = <<>>
    /\ MatchedQueries = lastQueries
    /\ \A m \in Matches :
          (\A k \in DOMAIN cards : ~SameName(m.query, cards[k]))
            => m.matchType = "fallback"

\* a query whose name no record holds or is held by, matched with the record
\* of the empty name
C29_Witness ==
  /\ HasEmptyName /\ lastOp = "find" /\ Len(lastQueries) = 2
  /\ \E m \in Matches :
        /\ Fold(m.query.name) # <<>>
        /\ Fold(m.card.name) = <<>>
        /\ m.matchType = "fallback"
        /\ \A k \in DOMAIN cards :
              Fold(cards[k].name) # <<>> => ~RelatedName(m.query, cards[k])

====
